---- MODULE Spec2Model ----
(***************************************************************************)
(* The dependency-injection container of src/infrastructure/di:            *)
(* Container (registry and singleton cache) and ScopedContainerImpl        *)
(* (per-scope instance cache, disposed flag), run on a single-threaded     *)
(* event loop.  An async method runs synchronously up to its first await;  *)
(* the rest of it (its continuation) runs as a later step, once the        *)
(* awaited factory or disposal routine has settled.  Between the two, any  *)
(* other call may start or resume.                                         *)
(***************************************************************************)
EXTENDS Integers, Sequences, FiniteSets, TLC

\* Service keys the callers use.
Keys == {"a", "b"}

Lifecycle == {"singleton", "scoped", "transient"}

\* What a factory invocation can settle to: it throws/rejects, or it returns
\* an instance without or with a dispose method.  Only the instances of a
\* scope's cache are ever tested for a dispose method (dispose, line 84), so
\* the instances that never enter one are all taken to have it.
InstanceKinds == {"plain", "disposable"}
Outcomes == {"failed"} \cup InstanceKinds

\* Bounds of the model.
MaxVersions == 2        \* register() calls per key
MaxScopes == 2          \* createScope() calls
MaxInvocations == 2     \* factory invocations
MaxInFlight == 2        \* calls suspended at an await at the same time
MaxDisposeCalls == 2    \* invocations of one instance's dispose method

\* services.get(key) of a key that was never registered.
NoDef == [lifecycle |-> "none", factory |-> 0]
\* singletons.has(key) is false.
Absent == 0
\* The caller identity of a call made on the Container itself; a call made
\* on a ScopedContainer carries the scope's index in scopes.
CONTAINER == 0

VARIABLES
    services,     \* Container.services: key -> definition (lifecycle, factory)
    singletons,   \* Container.singletons: key -> instance, or Absent
    scopes,       \* the ScopedContainerImpl objects created so far
    invocations,  \* history: every factory invocation so far, with what the
                  \* resolve() call that made it gave its caller; instance i
                  \* is what invocation i returned
    calls,        \* async calls suspended at an await
    raised,       \* history: the scopes on which a dispose() call has thrown
    records,      \* the dependency records (objects) made so far, by identity
    injectables,  \* the callables depend() and inject() returned
    cbCalls,      \* history: the calls the callables made to their callback
    requests      \* the requests the DI middleware was invoked for

\* The state of the container, and the state of the depend() callables.
containerVars == <<services, singletons, scopes, invocations, calls, raised>>
dependVars == <<records, injectables, cbCalls>>
middlewareVars == <<requests>>

vars == <<services, singletons, scopes, invocations, calls, raised,
          records, injectables, cbCalls, requests>>

ScopeIds == 1..Len(scopes)
Instances == 1..Len(invocations)

----------------------------------------------------------------------------
(* JavaScript Map, as used for scopedInstances: entries in insertion order; *)
(* set() of a present key replaces the value in place.                      *)

MapHas(m, k) == \E j \in 1..Len(m) : m[j].key = k

MapGet(m, k) == m[CHOOSE j \in 1..Len(m) : m[j].key = k].instance

MapSet(m, k, v) ==
    IF MapHas(m, k)
    THEN [j \in 1..Len(m) |-> IF m[j].key = k THEN [key |-> k, instance |-> v] ELSE m[j]]
    ELSE Append(m, [key |-> k, instance |-> v])

\* instance && typeof instance.dispose === 'function'
HasDispose(i) == invocations[i].outcome = "disposable"

\* The next entry after position pos whose instance has a dispose method
\* (the for-of loop skips the others synchronously); 0 when there is none.
NextDisposable(m, pos) ==
    LET later == {j \in (pos + 1)..Len(m) : HasDispose(m[j].instance)}
    IN  IF later = {} THEN 0 ELSE CHOOSE j \in later : \A h \in later : j <= h

----------------------------------------------------------------------------
Init ==
    /\ services = [k \in Keys |-> NoDef]
    /\ singletons = [k \in Keys |-> Absent]
    /\ scopes = <<>>
    /\ invocations = <<>>
    /\ calls = {}
    /\ raised = {}
    /\ records = <<>>
    /\ injectables = <<>>
    /\ cbCalls = <<>>
    /\ requests = <<>>

\* Mutant of Register: the registry is rebuilt with the one definition.
RegisterForgetsOthers(k, l) ==
    /\ services[k].factory < MaxVersions
    /\ services' = [h \in Keys |->
                       IF h = k
                       THEN [lifecycle |-> l, factory |-> services[k].factory + 1]
                       ELSE NoDef]
    /\ UNCHANGED <<singletons, scopes, invocations, calls, raised, dependVars, middlewareVars>>

\* Mutant of Register: what was cached under the key is evicted.
RegisterEvictsCached(k, l) ==
    /\ services[k].factory < MaxVersions
    /\ services' = [services EXCEPT ![k] =
                       [lifecycle |-> l, factory |-> services[k].factory + 1]]
    /\ singletons' = [singletons EXCEPT ![k] = Absent]
    /\ scopes' = [s \in ScopeIds |->
                     [scopes[s] EXCEPT !.scopedInstances =
                         SelectSeq(@, LAMBDA e : e.key # k)]]
    /\ UNCHANGED <<invocations, calls, raised, dependVars, middlewareVars>>

\* Container.register: services.set(key, definition).  The factory of the
\* n-th definition registered under a key is identified as n.
Register(k, l) ==
    /\ services[k].factory < MaxVersions
    /\ services' = [services EXCEPT ![k] =
                       [lifecycle |-> l, factory |-> services[k].factory + 1]]
    /\ UNCHANGED <<singletons, scopes, invocations, calls, raised, dependVars, middlewareVars>>

\* Mutant of CreateScope: the scope is made disposed.
CreateScopeDisposed ==
    /\ Len(scopes) < MaxScopes
    /\ scopes' = Append(scopes, [scopedInstances |-> <<>>, disposed |-> TRUE])
    /\ UNCHANGED <<services, singletons, invocations, calls, raised, dependVars, middlewareVars>>

\* Container.createScope: new ScopedContainerImpl(this, context).
CreateScope ==
    /\ Len(scopes) < MaxScopes
    /\ scopes' = Append(scopes, [scopedInstances |-> <<>>, disposed |-> FALSE])
    /\ UNCHANGED <<services, singletons, invocations, calls, raised, dependVars, middlewareVars>>

\* How the part of resolve() before its first await ends: it throws, it
\* returns an instance already cached, or it invokes the factory and awaits.
Thrown(error) == [out |-> error, inst |-> 0, mode |-> "none"]
Cached(i, mode) == [out |-> "ok", inst |-> i, mode |-> mode]
Awaiting(mode) == [out |-> "pending", inst |-> 0, mode |-> mode]

\* Mutants of ContainerResolveSync: the singleton branch without the
\* singletons.has(key) test; the scoped branch without the context test.
ContainerResolveSyncNoHas(k, ctx) ==
    LET definition == services[k] IN
    IF definition = NoDef
    THEN Thrown("ServiceNotRegistered")
    ELSE IF definition.lifecycle = "singleton"
    THEN Awaiting("singleton")
    ELSE IF definition.lifecycle = "transient"
    THEN Awaiting("transient")
    ELSE IF ~ctx
    THEN Thrown("ScopedServiceRequiresContext")
    ELSE Awaiting("direct")

ContainerResolveSyncNoContextTest(k, ctx) ==
    LET definition == services[k] IN
    IF definition = NoDef
    THEN Thrown("ServiceNotRegistered")
    ELSE IF definition.lifecycle = "singleton"
    THEN IF singletons[k] # Absent
         THEN Cached(singletons[k], "singleton")
         ELSE Awaiting("singleton")
    ELSE IF definition.lifecycle = "transient"
    THEN Awaiting("transient")
    ELSE Awaiting("direct")

\* Container.resolve(key, context?) up to its first await; ctx says whether
\* a context was passed.  A scoped key resolved here with a context (mode
\* "direct") goes to the factory without any cache.
ContainerResolveSync(k, ctx) ==
    LET definition == services[k] IN
    IF definition = NoDef
    THEN Thrown("ServiceNotRegistered")
    ELSE IF definition.lifecycle = "singleton"
    THEN IF singletons[k] # Absent
         THEN Cached(singletons[k], "singleton")
         ELSE Awaiting("singleton")
    ELSE IF definition.lifecycle = "transient"
    THEN Awaiting("transient")
    ELSE IF ~ctx
    THEN Thrown("ScopedServiceRequiresContext")
    ELSE Awaiting("direct")

\* Mutants of ScopedResolveSync: the disposed test made after the lookup of
\* the definition; no test that the key is registered.
ScopedResolveSyncLateDisposedTest(s, k) ==
    LET definition == services[k] IN
    IF definition = NoDef
    THEN Thrown("ServiceNotRegistered")
    ELSE IF scopes[s].disposed
    THEN Thrown("ContainerDisposed")
    ELSE IF definition.lifecycle = "singleton"
    THEN ContainerResolveSync(k, TRUE)
    ELSE IF definition.lifecycle = "scoped"
    THEN IF MapHas(scopes[s].scopedInstances, k)
         THEN Cached(MapGet(scopes[s].scopedInstances, k), "scoped")
         ELSE Awaiting("scoped")
    ELSE Awaiting("transient")

ScopedResolveSyncNoRegisteredTest(s, k) ==
    LET definition == services[k] IN
    IF scopes[s].disposed
    THEN Thrown("ContainerDisposed")
    ELSE IF definition.lifecycle = "singleton"
    THEN ContainerResolveSync(k, TRUE)
    ELSE IF definition.lifecycle = "scoped"
    THEN IF MapHas(scopes[s].scopedInstances, k)
         THEN Cached(MapGet(scopes[s].scopedInstances, k), "scoped")
         ELSE Awaiting("scoped")
    ELSE Awaiting("transient")

\* ScopedContainerImpl.resolve(key) up to its first await.  A singleton key
\* is handed to the parent's resolve with the scope's context.
ScopedResolveSync(s, k) ==
    LET definition == services[k] IN
    IF scopes[s].disposed
    THEN Thrown("ContainerDisposed")
    ELSE IF definition = NoDef
    THEN Thrown("ServiceNotRegistered")
    ELSE IF definition.lifecycle = "singleton"
    THEN ContainerResolveSync(k, TRUE)
    ELSE IF definition.lifecycle = "scoped"
    THEN IF MapHas(scopes[s].scopedInstances, k)
         THEN Cached(MapGet(scopes[s].scopedInstances, k), "scoped")
         ELSE Awaiting("scoped")
    ELSE Awaiting("transient")

\* await definition.factory(): the factory is invoked now, and the call of
\* caller via is suspended until what the factory returned settles.
AwaitFactory(via, k, mode) ==
    /\ Len(invocations) < MaxInvocations
    /\ Cardinality(calls) < MaxInFlight
    /\ invocations' = Append(invocations,
           [key |-> k, mode |-> mode, factory |-> services[k].factory,
            owner |-> via,
            outcome |-> "pending", gave |-> Awaiting(mode), disposeCalls |-> 0])
    /\ calls' = calls \cup {[op |-> "resolve", via |-> via, key |-> k, mode |-> mode,
                             inv |-> Len(invocations) + 1, pos |-> 0, n |-> 0]}
    /\ UNCHANGED <<services, singletons, scopes, raised, dependVars, middlewareVars>>

\* A resolve() call begins.  One that throws or returns a cached instance
\* before any await changes nothing: what it gives its caller is r.
BeginResolve(via, k, r) ==
    IF r.out = "pending" THEN AwaitFactory(via, k, r.mode) ELSE UNCHANGED vars

\* Container.resolve(key, context?) called on the Container.
ContainerResolve(k, ctx) == BeginResolve(CONTAINER, k, ContainerResolveSync(k, ctx))

\* ScopedContainerImpl.resolve(key) called on scope s.
ScopedResolve(s, k) == BeginResolve(s, k, ScopedResolveSync(s, k))

\* Mutant of SingletonsAfter: the instance is cached whatever the lifecycle.
SingletonsAfterAnyLifecycle(c) == [singletons EXCEPT ![c.key] = c.inv]

\* Mutant of ScopesAfter: one instance cache shared by all scopes.
ScopesAfterShared(c) ==
    IF c.mode = "scoped"
    THEN [s \in ScopeIds |-> [scopes[s] EXCEPT !.scopedInstances = MapSet(@, c.key, c.inv)]]
    ELSE scopes

\* Mutant of SingletonsAfter: a scoped key resolved on the Container with a
\* context is cached like a singleton.
SingletonsAfterWithContext(c) ==
    IF c.mode \in {"singleton", "direct"}
    THEN [singletons EXCEPT ![c.key] = c.inv]
    ELSE singletons

\* Mutant of ScopesAfter: a scope also caches the singleton it resolved
\* through its parent.
ScopesAfterCachesSingleton(c) ==
    IF c.via # CONTAINER /\ c.mode \in {"scoped", "singleton"}
    THEN [scopes EXCEPT ![c.via].scopedInstances = MapSet(@, c.key, c.inv)]
    ELSE scopes

\* The caches after the continuation of a resolve() whose factory returned
\* instance c.inv: singletons.set / scopedInstances.set, or nothing.
SingletonsAfter(c) ==
    IF c.mode = "singleton" THEN [singletons EXCEPT ![c.key] = c.inv] ELSE singletons

ScopesAfter(c) ==
    IF c.mode = "scoped"
    THEN [scopes EXCEPT ![c.via].scopedInstances = MapSet(@, c.key, c.inv)]
    ELSE scopes

\* Mutants of FactorySettle.  The first catches the rejection of the factory
\* and throws an error of the container in its place; the second stores
\* what the await gave in the cache whether or not the factory rejected.
FactorySettleWrapsError(c, outcome) ==
    /\ c \in calls /\ c.op = "resolve"
    /\ outcome = "plain" => c.mode = "scoped"
    /\ calls' = calls \ {c}
    /\ IF outcome = "failed"
       THEN /\ invocations' = [invocations EXCEPT ![c.inv].outcome = outcome,
                                                  ![c.inv].gave = Thrown("ServiceNotRegistered")]
            /\ UNCHANGED <<services, singletons, scopes, raised, dependVars, middlewareVars>>
       ELSE /\ singletons' = SingletonsAfter(c)
            /\ scopes' = ScopesAfter(c)
            /\ invocations' = [invocations EXCEPT ![c.inv].outcome = outcome,
                                                  ![c.inv].gave = Cached(c.inv, c.mode)]
            /\ UNCHANGED <<services, raised, dependVars, middlewareVars>>

FactorySettleCachesRejection(c, outcome) ==
    /\ c \in calls /\ c.op = "resolve"
    /\ outcome = "plain" => c.mode = "scoped"
    /\ calls' = calls \ {c}
    /\ singletons' = SingletonsAfter(c)
    /\ scopes' = ScopesAfter(c)
    /\ invocations' = [invocations EXCEPT
           ![c.inv].outcome = outcome,
           ![c.inv].gave = IF outcome = "failed"
                           THEN Thrown("FactoryError")
                           ELSE Cached(c.inv, c.mode)]
    /\ UNCHANGED <<services, raised, dependVars, middlewareVars>>

\* The factory awaited by call c settles; the continuation of resolve()
\* runs: a rejection is rethrown to the caller as it is; an instance is
\* cached (singleton, scoped) and what the cache then holds is returned.
FactorySettle(c, outcome) ==
    /\ c \in calls /\ c.op = "resolve"
    /\ outcome = "plain" => c.mode = "scoped"
    /\ calls' = calls \ {c}
    /\ IF outcome = "failed"
       THEN /\ invocations' = [invocations EXCEPT ![c.inv].outcome = outcome,
                                                  ![c.inv].gave = Thrown("FactoryError")]
            /\ UNCHANGED <<services, singletons, scopes, raised, dependVars, middlewareVars>>
       ELSE /\ singletons' = SingletonsAfter(c)
            /\ scopes' = ScopesAfter(c)
            /\ LET result == IF c.mode = "singleton" THEN singletons'[c.key]
                             ELSE IF c.mode = "scoped"
                             THEN MapGet(scopes'[c.via].scopedInstances, c.key)
                             ELSE c.inv
               IN  invocations' = [invocations EXCEPT ![c.inv].outcome = outcome,
                                                      ![c.inv].gave = Cached(result, c.mode)]
            /\ UNCHANGED <<services, raised, dependVars, middlewareVars>>

\* The for-of loop of dispose() on scope s, from the entry after position
\* pos, run until its next await or to the end of the method.  old is the
\* suspended dispose() call being resumed ({} when the call has just begun).
DisposeLoop(s, pos, old) ==
    LET m == scopes[s].scopedInstances
        j == NextDisposable(m, pos)
    IN  IF j # 0
        THEN \* await instance.dispose(): the routine is invoked now
             LET i == m[j].instance IN
             /\ Cardinality(calls \ old) < MaxInFlight
             /\ invocations[i].disposeCalls < MaxDisposeCalls
             /\ invocations' = [invocations EXCEPT ![i].disposeCalls = @ + 1]
             /\ calls' = (calls \ old) \cup
                    {[op |-> "dispose", via |-> s, key |-> m[j].key, mode |-> "dispose",
                      inv |-> i, pos |-> j, n |-> invocations[i].disposeCalls + 1]}
             /\ UNCHANGED <<services, singletons, scopes, raised, dependVars, middlewareVars>>
        ELSE \* scopedInstances.clear(); disposed = true.  An iterator that
             \* another suspended dispose() holds on the cleared map is left
             \* before its first entry.
             /\ scopes' = [scopes EXCEPT ![s] =
                    [scopedInstances |-> <<>>, disposed |-> TRUE]]
             /\ calls' = {IF c.op = "dispose" /\ c.via = s THEN [c EXCEPT !.pos = 0] ELSE c :
                             c \in calls \ old}
             /\ UNCHANGED <<services, singletons, invocations, raised, dependVars, middlewareVars>>

\* Mutant of Dispose: the call acts on the cache and flag of any scope.
DisposeAnyScope(s) ==
    \E t \in ScopeIds :
        IF scopes[t].disposed
        THEN UNCHANGED vars
        ELSE DisposeLoop(t, 0, {})

\* ScopedContainerImpl.dispose() up to its first await.
Dispose(s) ==
    IF scopes[s].disposed
    THEN UNCHANGED vars
    ELSE DisposeLoop(s, 0, {})

\* The disposal routine awaited by dispose() call c settles.  When it threw
\* or rejected, the await rethrows and dispose() ends there; otherwise the
\* loop goes on.
DisposeSettle(c, thrown) ==
    /\ c \in calls /\ c.op = "dispose"
    /\ IF thrown
       THEN /\ calls' = calls \ {c}
            /\ raised' = raised \cup {c.via}
            /\ UNCHANGED <<services, singletons, scopes, invocations, dependVars, middlewareVars>>
       ELSE DisposeLoop(c.via, c.pos, {c})

\* A call begins.
Begin ==
    \/ \E k \in Keys, ctx \in BOOLEAN : ContainerResolve(k, ctx)
    \/ \E s \in ScopeIds, k \in Keys : ScopedResolve(s, k)
    \/ \E s \in ScopeIds : Dispose(s)

\* A suspended call resumes.
Resume ==
    \/ \E c \in calls, outcome \in Outcomes : FactorySettle(c, outcome)
    \/ \E c \in calls, thrown \in BOOLEAN : DisposeSettle(c, thrown)

Setup ==
    \/ \E k \in Keys, l \in Lifecycle : Register(k, l)
    \/ CreateScope

Next == Setup \/ Begin \/ Resume

Spec == Init /\ [][Next]_vars

\* Callers that await each call before making the next: no call begins
\* while another is suspended.
NextSeq == Setup \/ (calls = {} /\ Begin) \/ Resume

SpecSeq == Init /\ [][NextSeq]_vars

----------------------------------------------------------------------------
(* depend(dependencies, cb) of types.ts: the callable fn it returns, and    *)
(* fn.inject.  A dependency record is an object with an identity: records  *)
(* holds the objects made so far and a callable refers to its record by    *)
(* index, so that a write into an existing record would be seen by every   *)
(* callable that holds it.                                                  *)

DepKeys == {"p", "q"}
DepValues == {1, 2}
\* The argument lists callers pass to a callable.
ArgLists == {<<>>, <<1>>, <<2, 1>>}

MaxInjectables == 3     \* callables made by depend() and inject()
MaxCbCalls == 2         \* invocations of callables

\* T, and the objects of type Partial<T>.
DependencyRecords == [DepKeys -> DepValues]
Mappings == UNION {[S -> DepValues] : S \in SUBSET DepKeys}

\* The argument of inject: a mapping, or a function (d: T) => Partial<T>.
\* The functions callers pass here are d => ({p: d.q}) and d => ({q: d.p}).
OverrideFunctions == {"pFromQ", "qFromP"}
MappingOverride(m) == [isFunction |-> FALSE, mapping |-> m, name |-> "none"]
FunctionOverride(f) == [isFunction |-> TRUE, mapping |-> <<>>, name |-> f]
Overrides ==
    {MappingOverride(m) : m \in Mappings} \cup {FunctionOverride(f) : f \in OverrideFunctions}
NoOverride == MappingOverride(<<>>)

\* deps(dependencies), for the function deps named f.
CallOverride(f, d) ==
    IF f = "pFromQ" THEN [k \in {"p"} |-> d["q"]] ELSE [k \in {"q"} |-> d["p"]]

\* typeof deps === 'function' ? deps(dependencies) : deps
Partial(deps, d) == IF deps.isFunction THEN CallOverride(deps.name, d) ELSE deps.mapping

\* Mutant of Spread: { ...x, ...d }.
SpreadCurrentLast(d, x) ==
    [k \in DOMAIN d \cup DOMAIN x |-> IF k \in DOMAIN d THEN d[k] ELSE x[k]]

\* { ...d, ...x }: a new object with the properties of d, then those of x.
Spread(d, x) ==
    [k \in DOMAIN d \cup DOMAIN x |-> IF k \in DOMAIN x THEN x[k] ELSE d[k]]

\* depend(dependencies, cb), called with a new object d: the callable made
\* closes over that object.  History: base and by say how the callable was
\* derived, given is the record a call of depend() by a caller was given.
Depend(d) ==
    /\ Len(injectables) < MaxInjectables
    /\ records' = Append(records, d)
    /\ injectables' = Append(injectables,
           [dependencies |-> Len(records) + 1, base |-> 0, by |-> NoOverride, given |-> d])
    /\ UNCHANGED <<cbCalls, containerVars, middlewareVars>>

\* Mutant of RecordsAfterInject: Object.assign(dependencies, partial).
RecordsAfterInjectInPlace(i, partial) ==
    LET r == injectables[i].dependencies
        merged == Spread(records[r], partial)
    IN  Append([records EXCEPT ![r] = merged], merged)

\* The objects after callable i's inject: the spread makes a new one.
RecordsAfterInject(i, partial) ==
    Append(records, Spread(records[injectables[i].dependencies], partial))

\* fn.inject(deps) on callable i: depend({...dependencies, ...partial}, cb).
Inject(i, deps) ==
    /\ Len(injectables) < MaxInjectables
    /\ LET partial == Partial(deps, records[injectables[i].dependencies]) IN
           records' = RecordsAfterInject(i, partial)
    /\ injectables' = Append(injectables,
           [dependencies |-> Len(records) + 1, base |-> i, by |-> deps, given |-> <<>>])
    /\ UNCHANGED <<cbCalls, containerVars, middlewareVars>>

\* The callback: any function of the record and the arguments it is passed.
Cb(d, args) == <<d["q"], d["p"], Len(args)>>

\* Mutant of CallbackArguments: cb(dependencies).
CallbackArgumentsDropped(i, args) ==
    [dependencies |-> injectables[i].dependencies, args |-> <<>>]

\* cb(dependencies, ...args): what callable i passes to cb.
CallbackArguments(i, args) ==
    [dependencies |-> injectables[i].dependencies, args |-> args]

\* fn(...args) on callable i.  History: the call of cb is logged with the
\* record it was passed (its identity, and its content then), the
\* arguments, and what fn returned.
Invoke(i, args) ==
    /\ Len(cbCalls) < MaxCbCalls
    /\ LET passed == CallbackArguments(i, args) IN
           cbCalls' = Append(cbCalls,
               [fn |-> i, called |-> args, dependencies |-> passed.dependencies,
                seen |-> records[passed.dependencies], args |-> passed.args,
                returned |-> Cb(records[passed.dependencies], passed.args)])
    /\ UNCHANGED <<records, injectables, containerVars, middlewareVars>>

Callables == 1..Len(injectables)

NextDepend ==
    \/ \E d \in DependencyRecords : Depend(d)
    \/ \E i \in Callables, deps \in Overrides : Inject(i, deps)
    \/ \E i \in Callables, args \in ArgLists : Invoke(i, args)

SpecDepend == Init /\ [][NextDepend]_vars

----------------------------------------------------------------------------
(* The DI middleware (createDIMiddleware): for each request it makes a      *)
(* context, creates a scope of the global container, starts the request    *)
(* logger, registers a 'finish' listener on the response that disposes the *)
(* scope, attaches scope and context to the request and calls next().  The *)
(* container is any DIContainer: its createScope may throw, and the        *)
(* dispose() of its scope may reject.                                      *)

MaxRequests == 3        \* requests the middleware is invoked for

\* processRequest: createScopedContainer, then logRequestStart and
\* setupResponseCleanup, then attachToRequest.  A failure of a stage ends
\* the pipeline with that stage's error; createScope has been called by then.
ProcessRequest(scopeThrows, loggerThrows) ==
    IF scopeThrows
    THEN [result |-> "ContainerScopeError", createScopeCalls |-> 1,
          listeners |-> 0, attached |-> FALSE]
    ELSE IF loggerThrows
    THEN [result |-> "LoggerError", createScopeCalls |-> 1,
          listeners |-> 0, attached |-> FALSE]
    ELSE [result |-> "next", createScopeCalls |-> 1,
          listeners |-> 1, attached |-> TRUE]

\* The middleware is invoked for a new request: processRequest, then next()
\* or next(error).  The response is open.
Middleware(scopeThrows, loggerThrows) ==
    /\ Len(requests) < MaxRequests
    /\ LET p == ProcessRequest(scopeThrows, loggerThrows) IN
           requests' = Append(requests,
               [result |-> p.result, createScopeCalls |-> p.createScopeCalls,
                listeners |-> p.listeners, attached |-> p.attached,
                response |-> "open", disposeCalls |-> 0,
                listener |-> "none", disposeRejected |-> FALSE])
    /\ UNCHANGED <<containerVars, dependVars>>

\* The response of request r emits 'finish' (once): the listener, when one
\* was registered, logs the completion and awaits scopedContainer.dispose().
Finish(r) ==
    /\ requests[r].response = "open"
    /\ requests' = [requests EXCEPT ![r] =
           IF requests[r].listeners > 0
           THEN [@ EXCEPT !.response = "finished", !.disposeCalls = @ + 1,
                          !.listener = "awaiting"]
           ELSE [@ EXCEPT !.response = "finished"]]
    /\ UNCHANGED <<containerVars, dependVars>>

\* Mutant of ListenerOutcome: the await is not in a try block.
ListenerOutcomeRethrows(rejected) == IF rejected THEN "rejected" ELSE "resolved"

\* try { await scopedContainer.dispose() } catch { }: how the listener ends.
ListenerOutcome(rejected) == "resolved"

\* The dispose() the listener of request r awaits settles.
DisposeSettled(r, rejected) ==
    /\ requests[r].listener = "awaiting"
    /\ requests' = [requests EXCEPT ![r].listener = ListenerOutcome(rejected),
                                    ![r].disposeRejected = rejected]
    /\ UNCHANGED <<containerVars, dependVars>>

RequestIds == 1..Len(requests)

NextMiddleware ==
    \/ \E scopeThrows \in BOOLEAN, loggerThrows \in BOOLEAN :
           Middleware(scopeThrows, loggerThrows)
    \/ \E r \in RequestIds : Finish(r)
    \/ \E r \in RequestIds, rejected \in BOOLEAN : DisposeSettled(r, rejected)

SpecMiddleware == Init /\ [][NextMiddleware]_vars

----------------------------------------------------------------------------
(* Properties.  A resolve() call that ends before any await changes        *)
(* nothing, so what it gives its caller is ContainerResolveSync or         *)
(* ScopedResolveSync of the state it is made in; what a call that was      *)
(* suspended gave its caller is the "gave" field of its invocation.        *)

\* The factory invocations made for key k under the singleton lifecycle
\* that did not throw.
SingletonCreations(k) ==
    {i \in Instances : /\ invocations[i].mode = "singleton"
                       /\ invocations[i].key = k
                       /\ invocations[i].outcome # "failed"}

\* The factory invocations scope s made for the scoped key k that did not throw.
ScopedCreations(s, k) ==
    {i \in Instances : /\ invocations[i].mode = "scoped"
                       /\ invocations[i].owner = s
                       /\ invocations[i].key = k
                       /\ invocations[i].outcome # "failed"}

\* The instances the resolve() calls that awaited one of the invocations in
\* S returned to their callers.
Given(S) == {invocations[i].gave.inst : i \in {j \in S : invocations[j].gave.out = "ok"}}

\* The instances held in the instance cache of scope s.
CachedIn(s) == {scopes[s].scopedInstances[j].instance : j \in 1..Len(scopes[s].scopedInstances)}

\* C1: for a singleton key, first-time resolve() calls that overlap (the
\* second made while the first is suspended on the factory) run the
\* factory once, and all callers, the later ones too, receive one instance.
C1_ConcurrentSingletonOnce ==
    \A k \in Keys :
        /\ Cardinality(SingletonCreations(k)) <= 1
        /\ Cardinality(Given(SingletonCreations(k))) <= 1
        /\ singletons[k] # Absent => Given(SingletonCreations(k)) \subseteq {singletons[k]}

\* C2: within one scope, first-time resolve() calls of a scoped key that
\* overlap invoke the factory at most once for that scope and key, and the
\* callers receive one instance.
C2_ConcurrentScopedOnce ==
    \A s \in ScopeIds, k \in Keys :
        /\ Cardinality(ScopedCreations(s, k)) <= 1
        /\ Cardinality(Given(ScopedCreations(s, k))) <= 1

\* C3: when no two calls overlap, the resolve() calls of a singleton key,
\* with or without a context, invoke the factory once, on the first call
\* (an invocation that throws caches nothing and is not counted), and every
\* call returns the instance that call cached, without another invocation.
C3_SequentialSingleton ==
    \A k \in Keys :
        /\ Cardinality(SingletonCreations(k)) <= 1
        /\ \A i \in SingletonCreations(k) :
               invocations[i].outcome # "pending" =>
                   /\ singletons[k] = i
                   /\ invocations[i].gave = Cached(i, "singleton")
        /\ singletons[k] # Absent =>
               /\ SingletonCreations(k) = {singletons[k]}
               /\ services[k].lifecycle = "singleton" =>
                      \A ctx \in BOOLEAN :
                          ContainerResolveSync(k, ctx) = Cached(singletons[k], "singleton")

C3_Witness ==
    \E k \in Keys :
        /\ services[k].lifecycle = "singleton"
        /\ singletons[k] # Absent
        /\ \E i \in Instances : /\ invocations[i].mode = "singleton"
                                /\ invocations[i].key = k
                                /\ invocations[i].outcome = "failed"

C5_TransientNeverCached ==
    /\ \A k \in Keys :
           services[k].lifecycle = "transient" =>
               /\ \A ctx \in BOOLEAN : ContainerResolveSync(k, ctx) = Awaiting("transient")
               /\ \A s \in ScopeIds :
                      ~scopes[s].disposed => ScopedResolveSync(s, k) = Awaiting("transient")
    /\ \A i \in Instances :
           invocations[i].mode = "transient" =>
               /\ \A k \in Keys : singletons[k] # i
               /\ \A s \in ScopeIds : i \notin CachedIn(s)
               /\ invocations[i].gave \in
                      {Awaiting("transient"), Thrown("FactoryError"), Cached(i, "transient")}

C5_Witness ==
    \E i \in Instances, j \in Instances :
        /\ i # j
        /\ invocations[i].key = invocations[j].key
        /\ invocations[i].gave = Cached(i, "transient")
        /\ invocations[j].gave = Cached(j, "transient")

\* C6: once dispose() has completed on a scope, every resolve() call on it
\* throws ContainerDisposed, whatever the key (registered under any
\* lifecycle or not at all), before any factory is invoked; and the scope
\* stays disposed.
C6_DisposedIsTerminal ==
    /\ [](\A s \in ScopeIds :
              scopes[s].disposed =>
                  \A k \in Keys : ScopedResolveSync(s, k) = Thrown("ContainerDisposed"))
    /\ [][\A s \in ScopeIds : scopes[s].disposed => scopes'[s].disposed]_vars

C6_Witness ==
    \E s \in ScopeIds, k \in Keys, h \in Keys :
        /\ scopes[s].disposed
        /\ services[k] = NoDef
        /\ services[h].lifecycle = "scoped"

\* C7 as stated: resolve() of a key that is not registered throws
\* ServiceNotRegistered on the Container and on every scope, whatever the
\* scope's state.
C7_UnregisteredAnyState ==
    \A k \in Keys :
        services[k] = NoDef =>
            /\ \A ctx \in BOOLEAN : ContainerResolveSync(k, ctx) = Thrown("ServiceNotRegistered")
            /\ \A s \in ScopeIds : ScopedResolveSync(s, k) = Thrown("ServiceNotRegistered")

\* C7, amended: resolve() of a key that is not registered never returns a
\* value; it throws ServiceNotRegistered on the Container and on a scope
\* that is not disposed, and ContainerDisposed on a disposed scope.
C7_UnregisteredThrows ==
    \A k \in Keys :
        services[k] = NoDef =>
            /\ \A ctx \in BOOLEAN : ContainerResolveSync(k, ctx) = Thrown("ServiceNotRegistered")
            /\ \A s \in ScopeIds :
                   ScopedResolveSync(s, k) =
                       IF scopes[s].disposed
                       THEN Thrown("ContainerDisposed")
                       ELSE Thrown("ServiceNotRegistered")

C7_Witness ==
    \E k \in Keys, s \in ScopeIds, t \in ScopeIds :
        /\ services[k] = NoDef
        /\ ~scopes[s].disposed
        /\ scopes[t].disposed

C9_DisposeTwiceInvokesOnce ==
    \A i \in Instances : invocations[i].disposeCalls <= 1

\* C10: a disposal routine that throws or rejects does not make dispose()
\* throw, and a dispose() call that has ended has invoked the disposal
\* routine of every instance still in the scope's cache.
C10_DisposeIsolatesFailures ==
    \A s \in ScopeIds :
        /\ s \notin raised
        /\ (s \in raised /\ ~\E c \in calls : c.op = "dispose" /\ c.via = s) =>
               \A i \in CachedIn(s) : HasDispose(i) => invocations[i].disposeCalls >= 1

\* C11: a singleton key resolved through a scope gives the Container's one
\* instance: on a scope that is not disposed the call is the parent's
\* resolve with the scope's context; an instance made under the singleton
\* lifecycle is never in a scope's cache; and the instance a call made
\* through a scope returns is the one every other caller of the key, on the
\* Container or on any scope, was given.
C11_SingletonSharedByScopes ==
    /\ [](\A k \in Keys, s \in ScopeIds :
              /\ services[k].lifecycle = "singleton" /\ ~scopes[s].disposed =>
                     ScopedResolveSync(s, k) = ContainerResolveSync(k, TRUE)
              /\ \A i \in Instances :
                     invocations[i].mode = "singleton" => i \notin CachedIn(s))
    /\ [][\A c \in calls :
              (/\ c.op = "resolve" /\ c.mode = "singleton" /\ c.via # CONTAINER
               /\ c \notin calls'
               /\ invocations'[c.inv].gave.out = "ok") =>
                  \A j \in Instances \ {c.inv} :
                      (/\ invocations[j].mode = "singleton"
                       /\ invocations[j].key = c.key
                       /\ invocations[j].gave.out = "ok") =>
                          invocations[j].gave.inst = invocations'[c.inv].gave.inst]_vars

\* The step is a call on scope a that begins, or one that resumes.
ActsOn(a) ==
    \/ Dispose(a)
    \/ \E k \in Keys : ScopedResolve(a, k)
    \/ \E c \in calls :
           /\ c.via = a
           /\ \/ \E outcome \in Outcomes : FactorySettle(c, outcome)
              \/ \E thrown \in BOOLEAN : DisposeSettle(c, thrown)

\* C12: no instance is in the caches of two scopes, and a resolve() or
\* dispose() call on scope a, at its beginning and at each resumption, leaves
\* the cache and the disposed flag of every other scope b as they were and
\* invokes the disposal routine of no instance cached in b.
C12_ScopesAreIsolated ==
    /\ [](\A a \in ScopeIds, b \in ScopeIds : a # b => CachedIn(a) \cap CachedIn(b) = {})
    /\ [][\A a \in ScopeIds :
              ActsOn(a) =>
                  \A b \in ScopeIds \ {a} :
                      /\ scopes'[b] = scopes[b]
                      /\ \A i \in CachedIn(b) :
                             invocations'[i].disposeCalls = invocations[i].disposeCalls]_vars

C12_Witness ==
    \E a \in ScopeIds, b \in ScopeIds, i \in Instances, j \in Instances :
        /\ a # b
        /\ scopes[a].disposed /\ ~scopes[b].disposed
        /\ invocations[i].mode = "scoped" /\ invocations[i].owner = a
        /\ invocations[i].disposeCalls = 1
        /\ j \in CachedIn(b) /\ HasDispose(j) /\ invocations[j].disposeCalls = 0

\* C13: register(key, definition) can always be called (within the bound
\* on definitions per key), whether or not the key has a definition; it
\* puts the new definition under the key in place of any earlier one and
\* leaves the definitions of all other keys, and everything else, as they
\* were; and the registry changes in no other way.
C13_RegisterReplacesOneKey ==
    /\ [](\A k \in Keys, l \in Lifecycle :
              services[k].factory < MaxVersions => ENABLED Register(k, l))
    /\ [][/\ \A k \in Keys, l \in Lifecycle :
                 Register(k, l) =>
                     /\ services'[k] = [lifecycle |-> l, factory |-> services[k].factory + 1]
                     /\ \A h \in Keys \ {k} : services'[h] = services[h]
                     /\ singletons' = singletons /\ scopes' = scopes
                     /\ invocations' = invocations /\ calls' = calls
          /\ \A h \in Keys :
                 services'[h] # services[h] => \E lc \in Lifecycle : Register(h, lc)]_vars

C13_Witness ==
    \E k \in Keys, h \in Keys :
        /\ k # h
        /\ services[k].factory = 2
        /\ services[h] # NoDef
        /\ services[h].lifecycle # services[k].lifecycle

\* The dependencies callable i is to pass, told from how it was derived:
\* those depend() was given, or those of its base with the keys of the
\* override replaced.
RECURSIVE ChainDependencies(_)
ChainDependencies(i) ==
    IF injectables[i].base = 0
    THEN injectables[i].given
    ELSE LET d == ChainDependencies(injectables[i].base)
             by == injectables[i].by
             x == IF by.isFunction THEN CallOverride(by.name, d) ELSE by.mapping
         IN  [k \in DepKeys |-> IF k \in DOMAIN x THEN x[k] ELSE d[k]]

\* C14: each invocation of the callable depend(deps, cb) returned calls cb
\* once, with the record deps itself first and then the arguments of the
\* invocation, and returns what cb returned.
C14_CallablePassesDependencies ==
    /\ [](\A n \in 1..Len(cbCalls) :
              LET c == cbCalls[n] IN
              /\ c.dependencies = injectables[c.fn].dependencies
              /\ injectables[c.fn].base = 0 => c.seen = injectables[c.fn].given
              /\ c.args = c.called
              /\ c.returned = Cb(c.seen, c.called))
    /\ [][\A i \in Callables, args \in ArgLists :
              Invoke(i, args) =>
                  /\ Len(cbCalls') = Len(cbCalls) + 1
                  /\ cbCalls'[Len(cbCalls')].fn = i
                  /\ cbCalls'[Len(cbCalls')].called = args]_vars

C14_Witness ==
    \E n \in 1..Len(cbCalls) :
        /\ injectables[cbCalls[n].fn].base = 0
        /\ cbCalls[n].called = <<2, 1>>
        /\ cbCalls[n].seen["p"] # cbCalls[n].seen["q"]

\* C15: inject(x) returns a new callable that passes cb the dependencies of
\* the callable it was called on with the keys of x (of x(dependencies)
\* when x is a function) set to the new values and the other keys as they
\* were; the callable it was called on passes what it passed before, and
\* no existing record is written.
C15_InjectMergesIntoNewCallable ==
    /\ [](\A n \in 1..Len(cbCalls) :
              LET c == cbCalls[n]
                  b == injectables[c.fn].base
                  by == injectables[c.fn].by
              IN  IF b = 0
                  THEN c.seen = injectables[c.fn].given
                  ELSE LET d == ChainDependencies(b)
                           x == IF by.isFunction THEN CallOverride(by.name, d) ELSE by.mapping
                       IN  \A k \in DepKeys :
                               c.seen[k] = IF k \in DOMAIN x THEN x[k] ELSE d[k])
    /\ [][\A i \in Callables, deps \in Overrides :
              Inject(i, deps) =>
                  /\ Len(injectables') = Len(injectables) + 1
                  /\ \A j \in Callables : injectables'[j] = injectables[j]
                  /\ \A r \in 1..Len(records) : records'[r] = records[r]
                  /\ injectables'[Len(injectables')].dependencies \notin 1..Len(records)]_vars

C15_Witness ==
    \E i \in Callables, j \in Callables, h \in Callables :
        /\ injectables[j].base = i /\ ~injectables[j].by.isFunction
        /\ injectables[h].base = i /\ injectables[h].by.isFunction
        /\ Len(cbCalls) = 2
        /\ cbCalls[1].fn = h /\ cbCalls[2].fn = i
        /\ cbCalls[1].seen # cbCalls[2].seen
        /\ records[injectables[j].dependencies] # records[injectables[i].dependencies]

\* C16: every callable, however long the chain of inject calls that made
\* it, holds a record of its own with the overrides of its chain applied in
\* order (a later override of a key wins), and no step (deriving a callable,
\* invoking one) changes the dependencies any existing callable passes.
C16_InjectChainsDoNotInterfere ==
    /\ [](\A i \in Callables :
              /\ records[injectables[i].dependencies] = ChainDependencies(i)
              /\ \A j \in Callables :
                     i # j => injectables[i].dependencies # injectables[j].dependencies)
    /\ [][\A i \in Callables :
              records'[injectables'[i].dependencies] = records[injectables[i].dependencies]]_vars

C16_Witness ==
    \E i \in Callables, j \in Callables, h \in Callables, n \in 1..Len(cbCalls) :
        /\ injectables[i].base = 0 /\ injectables[j].base = i /\ injectables[h].base = j
        /\ "p" \in DOMAIN injectables[j].by.mapping
        /\ "p" \in DOMAIN injectables[h].by.mapping
        /\ injectables[j].by.mapping["p"] # injectables[h].by.mapping["p"]
        /\ injectables[i].given["p"] = injectables[h].by.mapping["p"]
        /\ cbCalls[n].fn = h

\* The dispose() calls on scope s that are suspended at an await.
DisposeCallsOn(s) == {c \in calls : c.op = "dispose" /\ c.via = s}

\* C17: every dispose() call made on a scope that is not disposed ends
\* (after its last await, or at once when there is nothing to await) with
\* the scope disposed and its cache empty, also when a disposal routine threw.
C17_DisposeEndsDisposed ==
    [][\A s \in ScopeIds :
          (\/ Cardinality(DisposeCallsOn(s)') < Cardinality(DisposeCallsOn(s))
           \/ ~scopes[s].disposed /\ Dispose(s) /\ calls' = calls) =>
              /\ scopes'[s].disposed
              /\ scopes'[s].scopedInstances = <<>>]_vars

\* C18: dispose() invokes the disposal routines of a scope's cached
\* instances one at a time and in the order of the cache: at most one
\* routine of a scope is in progress at any time; the call awaiting the
\* routine of the entry at some position has invoked those of the entries
\* before it and not yet those of the entries after it; and an instance
\* without a disposal routine is passed over.
C18_DisposeIsSequential ==
    /\ \A s \in ScopeIds :
           LET m == scopes[s].scopedInstances IN
           /\ Cardinality(DisposeCallsOn(s)) <= 1
           /\ \A c \in DisposeCallsOn(s) :
                  /\ c.pos \in 1..Len(m)
                  /\ m[c.pos].instance = c.inv
                  /\ HasDispose(c.inv)
                  /\ \A j \in 1..Len(m) :
                         HasDispose(m[j].instance) =>
                             /\ j < c.pos => invocations[m[j].instance].disposeCalls >= c.n
                             /\ j > c.pos => invocations[m[j].instance].disposeCalls < c.n
    /\ \A i \in Instances : ~HasDispose(i) => invocations[i].disposeCalls = 0

\* C19: within one scope the instances are in the cache in the order in
\* which their keys were first resolved, which is the order in which their
\* factories were invoked (instance i is what the i-th invocation made),
\* also when first resolutions of different keys overlap; and resolve() of
\* a key the cache holds returns that instance without invoking a factory.
C19_CacheOrderIsResolutionOrder ==
    \A s \in ScopeIds :
        LET m == scopes[s].scopedInstances IN
        /\ \A j \in 1..Len(m), h \in 1..Len(m) :
               j < h => m[j].instance < m[h].instance
        /\ \A k \in Keys :
               (MapHas(m, k) /\ services[k].lifecycle = "scoped" /\ ~scopes[s].disposed) =>
                   ScopedResolveSync(s, k) = Cached(MapGet(m, k), "scoped")

ContainerErrors == {"ServiceNotRegistered", "ScopedServiceRequiresContext", "ContainerDisposed"}

\* C21: a resolve() call whose factory threw or rejected, on the Container
\* or on a scope, under any lifecycle, fails with the error of the factory:
\* the call that awaited a failed invocation gave its caller that error and
\* no error of the container, and no call gives the error of a factory
\* that did not fail.
C21_FactoryErrorPropagates ==
    \A i \in Instances :
        /\ invocations[i].outcome = "failed" <=> invocations[i].gave = Thrown("FactoryError")
        /\ invocations[i].gave.out \notin ContainerErrors

C21_Witness ==
    \E i \in Instances, j \in Instances :
        /\ invocations[i].mode = "scoped" /\ invocations[i].owner \in ScopeIds
        /\ invocations[i].gave = Thrown("FactoryError")
        /\ invocations[j].mode \in {"singleton", "transient", "direct"}
        /\ invocations[j].gave = Thrown("FactoryError")

\* C22: every Container.resolve(key, context) of a key registered as scoped
\* goes to the factory, whatever the caches hold and however often it was
\* called before, and returns what that invocation made; the instance is
\* stored in neither the singleton cache nor any scope's cache.
C22_ContainerScopedNeverCached ==
    /\ \A k \in Keys :
           services[k].lifecycle = "scoped" => ContainerResolveSync(k, TRUE) = Awaiting("direct")
    /\ \A i \in Instances :
           invocations[i].mode = "direct" =>
               /\ \A k \in Keys : singletons[k] # i
               /\ \A s \in ScopeIds : i \notin CachedIn(s)
               /\ invocations[i].gave \in
                      {Awaiting("direct"), Thrown("FactoryError"), Cached(i, "direct")}

C22_Witness ==
    \E i \in Instances, j \in Instances :
        /\ i # j
        /\ invocations[i].key = invocations[j].key
        /\ invocations[i].factory = invocations[j].factory
        /\ invocations[i].gave = Cached(i, "direct")
        /\ invocations[j].gave = Cached(j, "direct")
        /\ services[invocations[i].key].lifecycle = "scoped"

\* C23: for every request the middleware processed successfully (it called
\* next() without an error) createScope was called once and one 'finish'
\* listener was registered; once the response has finished the scope's
\* dispose() has been invoked, once; and the listener never ends with a
\* rejection, also when dispose() rejected.
C23_MiddlewareDisposesOnFinish ==
    \A r \in RequestIds :
        requests[r].result = "next" =>
            /\ requests[r].createScopeCalls = 1
            /\ requests[r].listeners = 1
            /\ requests[r].attached
            /\ requests[r].disposeCalls = IF requests[r].response = "finished" THEN 1 ELSE 0
            /\ requests[r].listener # "rejected"
            /\ requests[r].disposeRejected => requests[r].listener = "resolved"

C23_Witness ==
    \E r \in RequestIds, q \in RequestIds :
        /\ requests[r].result = "next" /\ requests[q].result = "next"
        /\ requests[r].response = "finished" /\ requests[q].response = "finished"
        /\ requests[r].disposeRejected /\ requests[r].listener = "resolved"
        /\ ~requests[q].disposeRejected /\ requests[q].listener = "resolved"

\* C24: a factory that throws or rejects leaves the caches as they were:
\* the step in which the rejection reaches resolve() changes neither the
\* singleton cache nor any scope's cache, no failed invocation is ever in a
\* cache, and a resolve() of a singleton or scoped key that has no cached
\* instance goes to the factory again.
C24_FailedFactoryCachesNothing ==
    /\ [](/\ \A i \in Instances :
                invocations[i].outcome = "failed" =>
                    /\ \A k \in Keys : singletons[k] # i
                    /\ \A s \in ScopeIds : i \notin CachedIn(s)
           /\ \A k \in Keys :
                /\ (services[k].lifecycle = "singleton" /\ singletons[k] = Absent) =>
                       ContainerResolveSync(k, FALSE) = Awaiting("singleton")
                /\ \A s \in ScopeIds :
                       (/\ services[k].lifecycle = "scoped"
                        /\ ~scopes[s].disposed
                        /\ ~MapHas(scopes[s].scopedInstances, k)) =>
                           ScopedResolveSync(s, k) = Awaiting("scoped"))
    /\ [][\A c \in calls :
              FactorySettle(c, "failed") =>
                  /\ singletons' = singletons
                  /\ scopes' = scopes]_vars

C24_Witness ==
    \E i \in Instances, j \in Instances, s \in ScopeIds :
        /\ i < j
        /\ invocations[i].mode = "scoped" /\ invocations[j].mode = "scoped"
        /\ invocations[i].owner = s /\ invocations[j].owner = s
        /\ invocations[i].key = invocations[j].key
        /\ invocations[i].factory = invocations[j].factory
        /\ invocations[i].outcome = "failed"
        /\ ~MapHas(scopes[s].scopedInstances, invocations[i].key)
        /\ invocations[j].outcome = "pending"

\* C25: in every reachable state a scope whose disposed flag is true has an
\* empty instance cache.
C25_DisposedScopeCacheEmpty ==
    \A s \in ScopeIds : scopes[s].disposed => scopes[s].scopedInstances = <<>>

\* C26: once dispose() has run to its end on a scope and no call is
\* suspended any more, every instance a scoped factory made for that scope
\* that has a disposal routine has had it invoked.
C26_NoInstanceEscapesDisposal ==
    \A s \in ScopeIds :
        (scopes[s].disposed /\ calls = {}) =>
            \A i \in Instances :
                (/\ invocations[i].mode = "scoped"
                 /\ invocations[i].owner = s
                 /\ HasDispose(i)) =>
                    invocations[i].disposeCalls >= 1

\* C27: resolve() on a scope never returns a scoped instance whose disposal
\* routine has been invoked: neither from the cache, nor as the result of a
\* call that was suspended on the factory.  (Stated for the scopes on which
\* no dispose() call has thrown.)
C27_NoDisposedInstanceReturned ==
    /\ [](\A s \in ScopeIds \ raised, k \in Keys :
              LET r == ScopedResolveSync(s, k) IN
              (r.out = "ok" /\ r.mode = "scoped") =>
                  invocations[r.inst].disposeCalls = 0)
    /\ [][\A c \in calls :
              (/\ c.op = "resolve" /\ c.mode = "scoped"
               /\ c.via \notin raised
               /\ c \notin calls'
               /\ invocations'[c.inv].gave.out = "ok") =>
                  invocations'[invocations'[c.inv].gave.inst].disposeCalls = 0]_vars

\* C28: while two dispose() calls on one scope are suspended at the same
\* time, and after them, the disposal routine of each instance of that
\* scope has been invoked at most once; and no dispose() call sets the
\* disposed flag of a scope on which it is already set.
C28_OverlappingDisposeInvokesOnce ==
    /\ [](\A s \in ScopeIds :
              s \notin raised =>
                  \A i \in Instances :
                      (invocations[i].mode = "scoped" /\ invocations[i].owner = s) =>
                          invocations[i].disposeCalls <= 1)
    /\ [][\A c \in calls :
              (/\ c.op = "dispose"
               /\ DisposeSettle(c, FALSE)
               /\ scopes'[c.via].disposed
               /\ Cardinality(DisposeCallsOn(c.via)') < Cardinality(DisposeCallsOn(c.via))) =>
                  ~scopes[c.via].disposed]_vars

\* C29: when register replaces the definition of a key under the same
\* lifecycle while an instance of it is cached (a singleton in the
\* Container, a scoped instance in a scope not disposed), resolve of the key
\* still returns the cached instance without reaching a factory; in every
\* state a cached instance under a matching lifecycle is what resolve
\* returns; and no factory is invoked for a singleton or scoped key that
\* was cached when the call began.
C29_ReRegisterKeepsCachedInstance ==
    /\ [](\A k \in Keys :
              /\ (services[k].lifecycle = "singleton" /\ singletons[k] # Absent) =>
                     /\ \A ctx \in BOOLEAN :
                            ContainerResolveSync(k, ctx) = Cached(singletons[k], "singleton")
                     /\ \A s \in ScopeIds :
                            ~scopes[s].disposed =>
                                ScopedResolveSync(s, k) = Cached(singletons[k], "singleton")
              /\ services[k].lifecycle = "scoped" =>
                     \A s \in ScopeIds :
                         (~scopes[s].disposed /\ MapHas(scopes[s].scopedInstances, k)) =>
                             ScopedResolveSync(s, k) =
                                 Cached(MapGet(scopes[s].scopedInstances, k), "scoped"))
    /\ [][\A k \in Keys :
              (/\ services'[k] # services[k]
               /\ services[k] # NoDef
               /\ services'[k].lifecycle = services[k].lifecycle) =>
                  /\ (services[k].lifecycle = "singleton" /\ singletons[k] # Absent) =>
                         /\ \A ctx \in BOOLEAN :
                                ContainerResolveSync(k, ctx)' =
                                    Cached(singletons[k], "singleton")
                         /\ \A s \in ScopeIds :
                                ~scopes[s].disposed =>
                                    ScopedResolveSync(s, k)' =
                                        Cached(singletons[k], "singleton")
                  /\ services[k].lifecycle = "scoped" =>
                         \A s \in ScopeIds :
                             (~scopes[s].disposed /\ MapHas(scopes[s].scopedInstances, k)) =>
                                 ScopedResolveSync(s, k)' =
                                     Cached(MapGet(scopes[s].scopedInstances, k), "scoped")]_vars
    /\ [][\A n \in 1..Len(invocations') :
              n > Len(invocations) =>
                  LET v == invocations'[n] IN
                  /\ v.mode = "singleton" => singletons[v.key] = Absent
                  /\ v.mode = "scoped" =>
                         ~MapHas(scopes[v.owner].scopedInstances, v.key)]_vars

\* C29 witness: no call is suspended, the definition of a key is the second
\* one registered under it, and under its lifecycle an instance made by the
\* first definition's factory is cached: as a singleton in the Container,
\* and as a scoped instance in a scope that is not disposed.
C29_Witness ==
    /\ calls = {}
    /\ \E k \in Keys :
           /\ services[k] = [lifecycle |-> "singleton", factory |-> 2]
           /\ singletons[k] # Absent
           /\ invocations[singletons[k]].factory = 1
    /\ \E k \in Keys, s \in ScopeIds :
           /\ services[k] = [lifecycle |-> "scoped", factory |-> 2]
           /\ ~scopes[s].disposed
           /\ MapHas(scopes[s].scopedInstances, k)
           /\ invocations[MapGet(scopes[s].scopedInstances, k)].factory = 1

\* C30: a dispose() call on a scope, at its beginning and at each
\* resumption (the steps that change its suspended dispose() calls or set
\* its disposed flag), leaves the registry and the singleton cache of the
\* Container as they were, and what a resolve of any key gives on the
\* Container and of a singleton key on every other scope; and the disposal
\* routine of an
\* instance that is not a scoped one cached by a scope (a singleton, a
\* transient, whichever container it was resolved through) is never invoked.
C30_DisposeLeavesParentAlone ==
    /\ [](\A i \in Instances :
              invocations[i].mode # "scoped" => invocations[i].disposeCalls = 0)
    /\ [][\A s \in ScopeIds :
              (\/ DisposeCallsOn(s)' # DisposeCallsOn(s)
               \/ scopes'[s].disposed # scopes[s].disposed) =>
                  /\ services' = services
                  /\ singletons' = singletons
                  /\ \A k \in Keys, ctx \in BOOLEAN :
                         ContainerResolveSync(k, ctx)' = ContainerResolveSync(k, ctx)
                  /\ \A k \in Keys, t \in ScopeIds \ {s} :
                         services[k].lifecycle = "singleton" =>
                             ScopedResolveSync(t, k)' = ScopedResolveSync(t, k)]_vars

\* C30 witness: scope s is disposed after its dispose() invoked the disposal
\* routine of a scoped instance of s; a singleton with a disposal routine
\* that was resolved through s is still cached by the Container, its routine
\* was not invoked, and the Container and another scope return it.
C30_Witness ==
    \E s \in ScopeIds, t \in ScopeIds, i \in Instances, j \in Instances :
        /\ s # t
        /\ scopes[s].disposed /\ ~scopes[t].disposed
        /\ invocations[j].mode = "scoped" /\ invocations[j].owner = s
        /\ invocations[j].disposeCalls = 1
        /\ invocations[i].mode = "singleton" /\ invocations[i].owner = s
        /\ HasDispose(i)
        /\ invocations[i].disposeCalls = 0
        /\ singletons[invocations[i].key] = i
        /\ ContainerResolveSync(invocations[i].key, FALSE) = Cached(i, "singleton")
        /\ ScopedResolveSync(t, invocations[i].key) = Cached(i, "singleton")

====
